---- MODULE Spec2Model ----
(***************************************************************************)
(* Model of risc0/circuit/rv32im-sys/cxx/ffi.cpp: the C-ABI bridge of the  *)
(* rv32im circuit.  One foreign caller drives the exported entry points;   *)
(* a step entry point opens the boundary wrapper (ffi_wrap), builds a      *)
(* BridgeContext and runs a lower-core step function, which calls back     *)
(* into the host through bridgeCallback.  The lower core, ffi_wrap and the *)
(* risc0_string / risc0_error / Fp / FpExt types live outside ffi.cpp.     *)
(*                                                                         *)
(* The caller keeps the documented contract of the string handle: it never *)
(* passes a released handle to the accessor or the destructor and never    *)
(* passes a null handle to the accessor.                                   *)
(***************************************************************************)
EXTENDS Integers, Sequences, FiniteSets, TLC

VARIABLES
  pc,         \* "idle" | "core" | "unwind" | "done" | "crashed"
  call,       \* the arguments of the entry-point call, as the caller passed them
  frame,      \* the entry point's frame: wrapper scope, BridgeContext, lower-core call
  coreLog,    \* callbacks the lower core issued during this call, in order
  hostLog,    \* invocations of host function pointers during this call, in order
  fault,      \* the exception in flight or caught (NoFault when none)
  thrown,     \* the text the thrower attached to the fault
  ret,        \* uint32_t returned by a step entry point
  retExt,     \* FpExt returned by poly_fp
  errBefore,  \* the caller's error slot as it was when the call began
  errSlot,    \* the caller's risc0_error
  heap,       \* risc0_string objects by handle
  diag,       \* per live handle, the text it was created with
  view,       \* what the last risc0_circuit_string_ptr returned
  prod,       \* operands and result of the last FpExt multiplication
  lastOp      \* the last operation the caller made, and whether it repeats the one before

vars == <<pc, call, frame, coreLog, hostLog, fault, thrown, ret, retExt,
          errBefore, errSlot, heap, diag, view, prod, lastOp>>

----------------------------------------------------------------------------
(* Bounds *)

MaxSteps == 2
MaxCallbacks == 3
MaxHandles == 2

----------------------------------------------------------------------------
(* Text: a std::string is a sequence of characters, a C string the same     *)
(* sequence followed by a terminator.                                       *)

NUL == "NUL"

CStr(s) == Append(s, NUL)

StdString(buf) ==
  LET n == CHOOSE i \in 1..Len(buf) :
             buf[i] = NUL /\ \A j \in 1..(i - 1) : buf[j] # NUL
  IN  SubSeq(buf, 1, n - 1)

HostCallbackFailure ==
  <<"H","o","s","t"," ","c","a","l","l","b","a","c","k"," ",
    "f","a","i","l","u","r","e">>

CoreTexts == { <<"b","a","d">>, <<"o","o","b"," ","7">> }

NoText == <<>>

runtime_error(msg) == [what |-> CStr(msg)]

NoFault == [what |-> <<>>]

----------------------------------------------------------------------------
(* Values and pointers *)

NULLP == "nullptr"
NullHandle == 0
Handles == 1..MaxHandles

BridgeCtxAddr == "&bridgeCtx"
TrampolineFn == "bridgeCallback"

Fp(n) == [val |-> n]
asRaw(x) == x.val

FpExtDefault == <<Fp(0), Fp(0), Fp(0), Fp(0)>>

FpExtVals == { FpExtDefault, <<Fp(1), Fp(0), Fp(1), Fp(0)>>, <<Fp(1), Fp(0), Fp(0), Fp(0)>> }

FpExt_mul_lhs(lhs, rhs) == lhs

FpExt_mul(lhs, rhs) == FpExtDefault

\* What the host side supplies with a call: its context, its function, its buffers.
Hosts == { [ctx |-> "h1", callback |-> "f1", args |-> "a1", mix |-> "m1"],
           [ctx |-> "h2", callback |-> "f2", args |-> "a2", mix |-> "m2"] }

Shapes == { [steps |-> s, cycle |-> c] : s \in 1..MaxSteps, c \in 0..(MaxSteps - 1) }
ValidShapes == { sh \in Shapes : sh.cycle < sh.steps }

Mem(addr) ==
  CASE addr = "m1" -> <<Fp(1), Fp(0), Fp(0), Fp(0)>>
    [] addr = "m2" -> <<Fp(0), Fp(1), Fp(0), Fp(0)>>
    [] OTHER       -> FpExtDefault

ArgsIndex(a) == IF a = "a1" THEN 1 ELSE 2

NoMix == [kind |-> "none", addr |-> NULLP]
MixPtr(addr) == [kind |-> "FpExt*", addr |-> addr]

StepOps == {"step_compute_accum", "step_verify_accum", "step_exec",
            "step_verify_bytes", "step_verify_mem"}

OpIndex(fn) ==
  CASE fn = "step_compute_accum" -> 1
    [] fn = "step_verify_accum"  -> 2
    [] fn = "step_exec"          -> 3
    [] fn = "step_verify_bytes"  -> 4
    [] fn = "step_verify_mem"    -> 5
    [] OTHER                     -> 6

----------------------------------------------------------------------------
(* The lower core (circuit::rv32im), an external collaborator.              *)

\* The callback occasions a step function may raise.
Events ==
  { [name |-> "n1", extra |-> "x1", args_ptr |-> "in1", args_len |-> 1,
     outs_ptr |-> "out1", outs_len |-> 1],
    [name |-> "n2", extra |-> "x2", args_ptr |-> "in2", args_len |-> 2,
     outs_ptr |-> "out2", outs_len |-> 0] }

RECURSIVE FoldLog(_)
FoldLog(log) ==
  IF log = <<>> THEN 0
  ELSE 3 * FoldLog(Tail(log)) + (IF Head(log).name = "n1" THEN 1 ELSE 2)

\* The value a step function computes from what it was given and what the
\* host wrote into the output buffers of the callbacks it issued.
step_fn(fn, steps, cycle, args, log) ==
  Fp(((((OpIndex(fn) * (MaxSteps + 2) + steps) * (MaxSteps + 2) + cycle) * 3
        + ArgsIndex(args)) * 1000) + FoldLog(log))

poly_fp(cycle, steps, mix, args) ==
  <<Fp(cycle), Fp(steps), Fp(asRaw(Mem(mix.addr)[1]) + 2 * asRaw(Mem(mix.addr)[2])),
    Fp(ArgsIndex(args))>>

----------------------------------------------------------------------------
(* ffi.cpp *)

\* const char* risc0_circuit_string_ptr(risc0_string* str)
string_ptr_empty(h, str) == [ptr |-> str, bytes |-> <<NUL>>]

risc0_circuit_string_ptr(h, str) == [ptr |-> str, bytes |-> CStr(h[str].str)]

NoView == [ptr |-> NullHandle, bytes |-> <<>>]

\* void risc0_circuit_string_free(risc0_string* str)
Unallocated == [state |-> "unallocated", str |-> NoText, frees |-> 0]
Released(e) == [state |-> "freed", str |-> NoText, frees |-> e.frees + 1]

string_free_all(h, str) ==
  [x \in Handles |-> IF h[x].state = "live" THEN Released(h[x]) ELSE h[x]]

risc0_circuit_string_free(h, str) ==
  IF str = NullHandle THEN h ELSE [h EXCEPT ![str] = Released(h[str])]

\* struct BridgeContext
BridgeContext(ctx, callback) == [ctx |-> ctx, callback |-> callback]
NoBridge == [ctx |-> NULLP, callback |-> NULLP]

\* One invocation of a host function pointer, with what it returned.
HostInvocation(fn, ctx, name, extra, args_ptr, args_len, outs_ptr, outs_len, r) ==
  [fn |-> fn, ctx |-> ctx, name |-> name, extra |-> extra,
   args_ptr |-> args_ptr, args_len |-> args_len,
   outs_ptr |-> outs_ptr, outs_len |-> outs_len, ret |-> r]

\* reinterpret_cast<BridgeContext*>(ctx): the object at that address.
Deref(ctx) == IF ctx = BridgeCtxAddr THEN frame.bridgeCtx ELSE NoBridge

\* void bridgeCallback(ctx, name, extra, args_ptr, args_len, outs_ptr, outs_len);
\* hostRet is what the host function returns.
bridgeCallback_inverted(ctx, name, extra, args_ptr, args_len, outs_ptr, outs_len, hostRet) ==
  [inv |-> HostInvocation(Deref(ctx).callback, Deref(ctx).ctx, name, extra,
                          args_ptr, args_len, outs_ptr, outs_len, hostRet),
   thrown |-> IF hostRet THEN HostCallbackFailure ELSE NoText,
   fault |-> IF hostRet THEN runtime_error(HostCallbackFailure) ELSE NoFault]

bridgeCallback_rawctx(ctx, name, extra, args_ptr, args_len, outs_ptr, outs_len, hostRet) ==
  [inv |-> HostInvocation(Deref(ctx).callback, ctx, name, extra,
                          args_ptr, args_len, outs_ptr, outs_len, hostRet),
   thrown |-> IF hostRet THEN NoText ELSE HostCallbackFailure,
   fault |-> IF hostRet THEN NoFault ELSE runtime_error(HostCallbackFailure)]

bridgeCallback_ignore(ctx, name, extra, args_ptr, args_len, outs_ptr, outs_len, hostRet) ==
  [inv |-> HostInvocation(Deref(ctx).callback, Deref(ctx).ctx, name, extra,
                          args_ptr, args_len, outs_ptr, outs_len, hostRet),
   thrown |-> NoText,
   fault |-> NoFault]

bridgeCallback_othertext(ctx, name, extra, args_ptr, args_len, outs_ptr, outs_len, hostRet) ==
  [inv |-> HostInvocation(Deref(ctx).callback, Deref(ctx).ctx, name, extra,
                          args_ptr, args_len, outs_ptr, outs_len, hostRet),
   thrown |-> IF hostRet THEN NoText ELSE <<name>>,
   fault |-> IF hostRet THEN NoFault ELSE runtime_error(<<name>>)]

bridgeCallback(ctx, name, extra, args_ptr, args_len, outs_ptr, outs_len, hostRet) ==
  [inv |-> HostInvocation(Deref(ctx).callback, Deref(ctx).ctx, name, extra,
                          args_ptr, args_len, outs_ptr, outs_len, hostRet),
   thrown |-> IF hostRet THEN NoText ELSE HostCallbackFailure,
   fault |-> IF hostRet THEN NoFault ELSE runtime_error(HostCallbackFailure)]

\* The lower-core call an entry point makes, by the callee's parameter names.
CoreCall(fn, ctx, callback, steps, cycle, mix, args) ==
  [fn |-> fn, ctx |-> ctx, callback |-> callback, steps |-> steps,
   cycle |-> cycle, mix |-> mix, args |-> args]

NoFrame == [wrapped |-> FALSE, dflt |-> 0, bridgeCtx |-> NoBridge, invoked |-> <<>>]

\* The body shared by the five step entry points:
\*   return ffi_wrap<uint32_t>(err, 0, [&] {
\*     BridgeContext bridgeCtx{ctx, callback};
\*     return circuit::rv32im::<fn>(&bridgeCtx, bridgeCallback, steps, cycle, args_ptr).asRaw();
\*   });
StepShim_unwrapped(fn, ctx, callback, steps, cycle, args_ptr) ==
  [wrapped |-> FALSE, dflt |-> 0, bridgeCtx |-> BridgeContext(ctx, callback),
   invoked |-> << CoreCall(fn, BridgeCtxAddr, TrampolineFn, steps, cycle, NoMix, args_ptr) >>]

StepShim_swapped(fn, ctx, callback, steps, cycle, args_ptr) ==
  [wrapped |-> TRUE, dflt |-> 0, bridgeCtx |-> BridgeContext(ctx, callback),
   invoked |-> << CoreCall(fn, BridgeCtxAddr, TrampolineFn, cycle, steps, NoMix, args_ptr) >>]

StepShim(fn, ctx, callback, steps, cycle, args_ptr) ==
  [wrapped |-> TRUE, dflt |-> 0, bridgeCtx |-> BridgeContext(ctx, callback),
   invoked |-> << CoreCall(fn, BridgeCtxAddr, TrampolineFn, steps, cycle, NoMix, args_ptr) >>]

\* FpExt risc0_circuit_rv32im_poly_fp(size_t cycle, size_t steps, FpExt* poly_mix, Fp** args)
\*   return circuit::rv32im::poly_fp(cycle, steps, poly_mix, args);
PolyShim_swapped(cycle, steps, poly_mix, args) ==
  [wrapped |-> FALSE, dflt |-> 0, bridgeCtx |-> NoBridge,
   invoked |-> << CoreCall("poly_fp", NULLP, NULLP, cycle, steps, poly_mix, args) >>]

PolyShim(cycle, steps, poly_mix, args) ==
  [wrapped |-> FALSE, dflt |-> 0, bridgeCtx |-> NoBridge,
   invoked |-> << CoreCall("poly_fp", NULLP, NULLP, steps, cycle, poly_mix, args) >>]

----------------------------------------------------------------------------
(* ffi_wrap (ffi.h): the boundary wrapper *)

\* The unit of work completed: its result is returned, the error slot is not written.
ffi_wrap_return(err, val) == [ret |-> val, err |-> err]

FreshHandle(h) == CHOOSE x \in Handles :
                    h[x].state = "unallocated" /\ \A y \in 1..(x - 1) : h[y].state # "unallocated"

\* The unit of work threw e: a risc0_string holding e.what() goes into the
\* error slot and the default value is returned.
ffi_wrap_catch(err, val, h, e) ==
  LET s == FreshHandle(h) IN
  [ret  |-> val,
   err  |-> [err EXCEPT !.msg = s],
   heap |-> [h EXCEPT ![s] = [state |-> "live", str |-> StdString(e.what), frees |-> 0]],
   handle |-> s]

----------------------------------------------------------------------------
(* The state machine *)

NoCall == [op |-> "none", ctx |-> NULLP, callback |-> NULLP, steps |-> 0,
           cycle |-> 0, poly_mix |-> NoMix, args |-> NULLP]

NoProd == [lhs |-> FpExtDefault, rhs |-> FpExtDefault, out |-> FpExtDefault, set |-> FALSE]

NoOp == [name |-> "none", arg |-> NullHandle, again |-> FALSE]

Init ==
  /\ pc = "idle"
  /\ call = NoCall
  /\ frame = NoFrame
  /\ coreLog = <<>>
  /\ hostLog = <<>>
  /\ fault = NoFault
  /\ thrown = NoText
  /\ ret = 0
  /\ retExt = FpExtDefault
  /\ errSlot = [msg |-> NullHandle]
  /\ errBefore = [msg |-> NullHandle]
  /\ heap = [x \in Handles |-> Unallocated]
  /\ diag = [x \in Handles |-> NoText]
  /\ view = NoView
  /\ prod = NoProd
  /\ lastOp = NoOp

CallerTurn == pc \in {"idle", "done"}

\* What one call leaves behind is dropped when the caller moves on.
ForgetCall ==
  /\ call' = NoCall
  /\ frame' = NoFrame
  /\ coreLog' = <<>>
  /\ hostLog' = <<>>
  /\ fault' = NoFault
  /\ thrown' = NoText
  /\ ret' = 0
  /\ retExt' = FpExtDefault
  /\ errBefore' = errSlot'

Enter(c, f) ==
  /\ CallerTurn
  /\ pc' = "core"
  /\ call' = c
  /\ frame' = f
  /\ coreLog' = <<>>
  /\ hostLog' = <<>>
  /\ fault' = NoFault
  /\ thrown' = NoText
  /\ ret' = 0
  /\ retExt' = FpExtDefault
  /\ errBefore' = errSlot
  /\ view' = NoView
  /\ prod' = NoProd
  /\ lastOp' = [name |-> c.op, arg |-> NullHandle, again |-> FALSE]
  /\ UNCHANGED <<errSlot, heap, diag>>

StepEntry(fn) ==
  /\ \E x \in Handles : heap[x].state = "unallocated"
  /\ \E h \in Hosts, sh \in ValidShapes :
       Enter([op |-> fn, ctx |-> h.ctx, callback |-> h.callback, steps |-> sh.steps,
              cycle |-> sh.cycle, poly_mix |-> NoMix, args |-> h.args],
             StepShim(fn, h.ctx, h.callback, sh.steps, sh.cycle, h.args))

risc0_circuit_rv32im_step_compute_accum ==
  /\ CallerTurn
  /\ StepEntry("step_compute_accum")

risc0_circuit_rv32im_step_verify_accum ==
  /\ CallerTurn
  /\ StepEntry("step_verify_accum")

risc0_circuit_rv32im_step_exec ==
  /\ CallerTurn
  /\ StepEntry("step_exec")

risc0_circuit_rv32im_step_verify_bytes ==
  /\ CallerTurn
  /\ StepEntry("step_verify_bytes")

risc0_circuit_rv32im_step_verify_mem ==
  /\ CallerTurn
  /\ StepEntry("step_verify_mem")

risc0_circuit_rv32im_poly_fp ==
  /\ CallerTurn
  /\ \E h \in Hosts, sh \in ValidShapes :
    Enter([op |-> "poly_fp", ctx |-> NULLP, callback |-> NULLP, steps |-> sh.steps,
           cycle |-> sh.cycle, poly_mix |-> MixPtr(h.mix), args |-> h.args],
          PolyShim(sh.cycle, sh.steps, MixPtr(h.mix), h.args))

Core == frame.invoked[1]

\* The step function raises a callback occasion: it calls the callback it was
\* given with the context it was given; an exception leaves the step function.
CoreCallback ==
  /\ pc = "core"
  /\ Core.callback = TrampolineFn
  /\ Len(coreLog) < MaxCallbacks
  /\ \E ev \in Events, hostRet \in BOOLEAN :
       LET r == bridgeCallback(Core.ctx, ev.name, ev.extra, ev.args_ptr, ev.args_len,
                               ev.outs_ptr, ev.outs_len, hostRet)
       IN  /\ coreLog' = Append(coreLog, ev)
           /\ hostLog' = Append(hostLog, r.inv)
           /\ fault' = r.fault
           /\ thrown' = r.thrown
           /\ pc' = IF r.fault = NoFault THEN "core" ELSE "unwind"
  /\ UNCHANGED <<call, frame, ret, retExt, errBefore, errSlot, heap, diag, view,
                 prod, lastOp>>

\* The step function fails for a reason of its own.
CoreThrow ==
  /\ pc = "core"
  /\ Core.fn \in StepOps
  /\ \E t \in CoreTexts :
       /\ fault' = runtime_error(t)
       /\ thrown' = t
  /\ pc' = "unwind"
  /\ UNCHANGED <<call, frame, coreLog, hostLog, ret, retExt, errBefore, errSlot,
                 heap, diag, view, prod, lastOp>>

\* The step function returns; the entry point returns its raw value through ffi_wrap.
CoreReturn ==
  /\ pc = "core"
  /\ Core.fn \in StepOps
  /\ LET v == asRaw(step_fn(Core.fn, Core.steps, Core.cycle, Core.args, coreLog))
         w == ffi_wrap_return(errSlot, v)
     IN  /\ ret' = w.ret
         /\ errSlot' = w.err
  /\ pc' = "done"
  /\ UNCHANGED <<call, frame, coreLog, hostLog, fault, thrown, retExt, errBefore,
                 heap, diag, view, prod, lastOp>>

\* poly_fp returns; the entry point returns its value.
PolyReturn ==
  /\ pc = "core"
  /\ Core.fn = "poly_fp"
  /\ retExt' = poly_fp(Core.cycle, Core.steps, Core.mix, Core.args)
  /\ pc' = "done"
  /\ UNCHANGED <<call, frame, coreLog, hostLog, fault, thrown, ret, errBefore,
                 errSlot, heap, diag, view, prod, lastOp>>

\* The exception reaches the entry point's frame: caught by ffi_wrap when the
\* call runs inside it, otherwise it leaves the extern "C" function.
Unwind ==
  /\ pc = "unwind"
  /\ IF frame.wrapped
     THEN LET w == ffi_wrap_catch(errSlot, frame.dflt, heap, fault)
          IN  /\ ret' = w.ret
              /\ errSlot' = w.err
              /\ heap' = w.heap
              /\ diag' = [diag EXCEPT ![w.handle] = thrown]
              /\ pc' = "done"
     ELSE /\ pc' = "crashed"
          /\ UNCHANGED <<ret, errSlot, heap, diag>>
  /\ UNCHANGED <<call, frame, coreLog, hostLog, fault, thrown, retExt, errBefore,
                 view, prod, lastOp>>

StringPtr ==
  /\ CallerTurn
  /\ \E s \in Handles :
       /\ heap[s].state = "live"
       /\ view' = risc0_circuit_string_ptr(heap, s)
       /\ lastOp' = [name |-> "string_ptr", arg |-> s,
                    again |-> lastOp.name = "string_ptr" /\ lastOp.arg = s]
  /\ pc' = "idle"
  /\ prod' = NoProd
  /\ UNCHANGED <<errSlot, heap, diag>>
  /\ ForgetCall

StringFree ==
  /\ CallerTurn
  /\ \E s \in Handles \cup {NullHandle} :
       /\ s # NullHandle => heap[s].state = "live"
       /\ heap' = risc0_circuit_string_free(heap, s)
       /\ diag' = [x \in Handles |-> IF heap'[x].state = "live" THEN diag[x] ELSE NoText]
       /\ lastOp' = [name |-> "string_free", arg |-> s,
                    again |-> lastOp.name = "string_free"]
  /\ pc' = "idle"
  /\ view' = NoView
  /\ prod' = NoProd
  /\ UNCHANGED errSlot
  /\ ForgetCall

Multiply ==
  /\ CallerTurn
  /\ \E a \in FpExtVals, b \in FpExtVals :
       prod' = [lhs |-> a, rhs |-> b, out |-> FpExt_mul(a, b), set |-> TRUE]
  /\ lastOp' = [name |-> "mul", arg |-> NullHandle, again |-> FALSE]
  /\ pc' = "idle"
  /\ view' = NoView
  /\ UNCHANGED <<errSlot, heap, diag>>
  /\ ForgetCall

Next ==
  \/ risc0_circuit_rv32im_step_compute_accum
  \/ risc0_circuit_rv32im_step_verify_accum
  \/ risc0_circuit_rv32im_step_exec
  \/ risc0_circuit_rv32im_step_verify_bytes
  \/ risc0_circuit_rv32im_step_verify_mem
  \/ risc0_circuit_rv32im_poly_fp
  \/ CoreCallback
  \/ CoreThrow
  \/ CoreReturn
  \/ PolyReturn
  \/ Unwind
  \/ StringPtr
  \/ StringFree
  \/ Multiply

Spec == Init /\ [][Next]_vars

----------------------------------------------------------------------------
(* Properties *)

HostRefused == \E i \in 1..Len(hostLog) : ~hostLog[i].ret

StepCallDone == pc = "done" /\ call.op \in StepOps

\* C1 as stated: no fault leaves any of the six entry points, every entry
\* point running its lower-core operation inside the boundary wrapper.
C1_EveryEntryWrapped ==
  /\ pc # "crashed"
  /\ pc \in {"core", "unwind"} => frame.wrapped

\* C1 amended: no fault leaves any of the five step entry points, each of
\* which runs its lower-core operation inside the boundary wrapper and
\* returns to the caller after a fault; poly_fp calls the lower core with no
\* wrapper around it.
C1_StepFaultsCaught ==
  /\ pc # "crashed"
  /\ (call.op \in StepOps /\ pc \in {"core", "unwind", "done"}) => frame.wrapped
  /\ (call.op \in StepOps /\ pc = "unwind") => fault # NoFault
  /\ (call.op = "poly_fp" /\ pc \in {"core", "done"}) => (~frame.wrapped /\ fault = NoFault)

C1_Witness ==
  /\ StepCallDone
  /\ call.op = "step_exec"
  /\ fault = runtime_error(HostCallbackFailure)
  /\ errSlot.msg # NullHandle

\* C2: a step entry point whose lower-core step function completes normally
\* returns the raw value of the result the step function computes for the
\* caller's steps, cycle and argument buffers, and the error slot is as it
\* was before the call.
C2_NormalResult ==
  (StepCallDone /\ fault = NoFault) =>
     /\ \A i \in 1..Len(hostLog) : hostLog[i].ret
     /\ ret = asRaw(step_fn(call.op, call.steps, call.cycle, call.args, coreLog))
     /\ errSlot = errBefore

C2_Witness ==
  /\ StepCallDone
  /\ fault = NoFault
  /\ call.op = "step_verify_mem"
  /\ call.steps = 2 /\ call.cycle = 1
  /\ Len(hostLog) = 2
  /\ errSlot.msg # NullHandle
  /\ ret # 0

\* C3: a step entry point during which the host callback refused at least
\* once returns 0 and leaves in the error slot a diagnostic whose text is
\* exactly "Host callback failure".
C3_RefusalDiagnostic ==
  (StepCallDone /\ HostRefused) =>
     /\ ret = 0
     /\ errSlot.msg # NullHandle
     /\ heap[errSlot.msg].state = "live"
     /\ heap[errSlot.msg].str = HostCallbackFailure

C3_Witness ==
  /\ StepCallDone
  /\ call.op = "step_exec"
  /\ Len(hostLog) = 3
  /\ hostLog[1].ret /\ hostLog[2].ret /\ ~hostLog[3].ret
  /\ heap[errSlot.msg].str = HostCallbackFailure

\* C4: a step entry point whose lower-core step function fails for a reason
\* of its own, no host callback having refused, returns 0 and leaves in the
\* error slot a diagnostic whose text is the text the lower core attached,
\* not the callback-refusal text.
C4_CoreDiagnostic ==
  (StepCallDone /\ fault # NoFault /\ ~HostRefused) =>
     /\ ret = 0
     /\ errSlot.msg # NullHandle
     /\ heap[errSlot.msg].state = "live"
     /\ thrown \in CoreTexts
     /\ heap[errSlot.msg].str = thrown
     /\ heap[errSlot.msg].str # HostCallbackFailure

C4_Witness ==
  /\ StepCallDone
  /\ call.op = "step_verify_accum"
  /\ ~HostRefused
  /\ Len(hostLog) = 1
  /\ thrown = <<"o","o","b"," ","7">>
  /\ heap[errSlot.msg].str = <<"o","o","b"," ","7">>

PolyForwards ==
  (call.op = "poly_fp" /\ pc \in {"core", "done"}) =>
     /\ Len(frame.invoked) = 1
     /\ frame.invoked[1] = CoreCall("poly_fp", NULLP, NULLP, call.steps, call.cycle,
                                    call.poly_mix, call.args)
     /\ hostLog = <<>>
     /\ coreLog = <<>>
     /\ errSlot = errBefore
     /\ pc = "done" => retExt = poly_fp(call.cycle, call.steps, call.poly_mix, call.args)

C6_ViewEqualsDiagnostic ==
  view # NoView =>
     /\ view.ptr # NullHandle
     /\ StdString(view.bytes) = diag[view.ptr]
     /\ heap[view.ptr].state = "live"
     /\ heap[view.ptr].str = diag[view.ptr]

C6_AccessorReadsOnly ==
  [][lastOp'.name = "string_ptr" => (heap' = heap /\ errSlot' = errSlot)]_vars

\* C6: the accessor on the handle a failing call produced returns, each time
\* it is called before the release, a non-null view whose contents are the
\* diagnostic text set at failure time, and changes neither the handle nor
\* any other.
C6_RoundTrip == []C6_ViewEqualsDiagnostic /\ C6_AccessorReadsOnly

C6_Witness ==
  /\ lastOp.name = "string_ptr"
  /\ lastOp.again
  /\ view.ptr = errSlot.msg
  /\ StdString(view.bytes) = HostCallbackFailure

\* C7: the destructor on a null handle changes nothing and raises no fault;
\* on a live handle it releases that handle once and leaves every other
\* handle as it was.
C7_Free ==
  [][lastOp'.name = "string_free" =>
       IF lastOp'.arg = NullHandle
       THEN heap' = heap /\ errSlot' = errSlot /\ diag' = diag /\ pc' = "idle"
       ELSE /\ heap[lastOp'.arg].state = "live"
            /\ heap'[lastOp'.arg].state = "freed"
            /\ heap'[lastOp'.arg].frees = 1
            /\ \A x \in Handles \ {lastOp'.arg} : heap'[x] = heap[x]
            /\ errSlot' = errSlot /\ pc' = "idle"]_vars

C7_Witness ==
  /\ lastOp = [name |-> "string_free", arg |-> NullHandle, again |-> TRUE]
  /\ heap[1].state = "freed" /\ heap[1].frees = 1
  /\ heap[2].state = "live"

C8_Forwarded ==
  /\ Len(hostLog) = Len(coreLog)
  /\ \A i \in 1..Len(hostLog) :
       hostLog[i] = HostInvocation(call.callback, call.ctx, coreLog[i].name,
                                   coreLog[i].extra, coreLog[i].args_ptr,
                                   coreLog[i].args_len, coreLog[i].outs_ptr,
                                   coreLog[i].outs_len, hostLog[i].ret)

C8_InOrderDuringCall ==
  [][hostLog' # hostLog =>
       \/ hostLog' = <<>>
       \/ /\ pc = "core"
          /\ Len(hostLog') = Len(hostLog) + 1
          /\ SubSeq(hostLog', 1, Len(hostLog)) = hostLog
          /\ coreLog' = Append(coreLog, coreLog'[Len(coreLog')])]_vars

\* C8: each callback the lower core issues during a step call is one
\* invocation of the host function given to that call, with the host's own
\* context pointer and the same name, extra text and buffers; invocations
\* are appended one at a time in the order issued, and only while the call
\* is in progress.
C8_Trampoline == []C8_Forwarded /\ C8_InOrderDuringCall

C8_Witness ==
  /\ StepCallDone
  /\ call.ctx = "h2"
  /\ Len(hostLog) = 3
  /\ hostLog[1].name = "n1" /\ hostLog[2].name = "n2" /\ hostLog[3].name = "n1"
  /\ hostLog[1].ctx = "h2" /\ hostLog[1].fn = "f2"

\* C9: within a step call the host callback is not invoked after it has
\* refused: a refusal is the last invocation, control is not back in the
\* step function, and the call does not end with a normal result.
C9_RefusalEndsStep ==
  call.op \in StepOps =>
    \A i \in 1..Len(hostLog) :
      ~hostLog[i].ret =>
         /\ i = Len(hostLog)
         /\ pc \in {"unwind", "done"}
         /\ fault = runtime_error(HostCallbackFailure)
         /\ pc = "done" => (ret = 0 /\ errSlot.msg # NullHandle)

C9_Witness ==
  /\ StepCallDone
  /\ call.op = "step_compute_accum"
  /\ Len(hostLog) = 2
  /\ Len(hostLog) < MaxCallbacks
  /\ hostLog[1].ret /\ ~hostLog[2].ret

\* C10: FpExt::operator* yields the default-constructed, all-zero element
\* whatever its operands are.
C10_ProductIsZero ==
  prod.set =>
     /\ prod.out = FpExtDefault
     /\ \A i \in 1..Len(prod.out) : asRaw(prod.out[i]) = 0

C10_Witness ==
  /\ prod.set
  /\ prod.lhs = <<Fp(1), Fp(0), Fp(1), Fp(0)>>
  /\ prod.rhs = <<Fp(1), Fp(0), Fp(0), Fp(0)>>
  /\ prod.out = FpExtDefault

====
